---- MODULE Spec2Model ----
(***************************************************************************)
(* Monoid range tree of crates/algolib/segtree2 (Segtree<T: Identity>),    *)
(* checked against the brute-force Vector of crates/test_tools/            *)
(* test_vector2.                                                           *)
(*                                                                         *)
(* The tree is the struct { len, table }; table is indexed from 0 as in    *)
(* the source.  Every public method is one action.  A method call ends in  *)
(* one of three ways, recorded in call.out.kind:                           *)
(*   "Return"  - the method returned (value = its result),                 *)
(*   "Panic"   - a bounds-checked table access failed (Rust panics),       *)
(*   "Diverge" - a `while start != end` loop never exits.                  *)
(***************************************************************************)
EXTENDS Integers, Sequences, FiniteSets, TLC

VARIABLES T, seg, vec, call

vars == <<T, seg, vec, call>>

(* ------------------------------ bounds -------------------------------- *)

\* Longest element sequence handed to from_slice.
MaxLen == 4

\* Longest array given to DualSegtree::new.
DualMaxLen == 5

\* Most calls of DualSegtree::apply in one run.
MaxApplies == 2

\* Iterations after which a search loop whose cursors no longer move is
\* taken to run forever (every predicate below that ever turns false on a
\* growing accumulator does so well before this many steps).
LoopFuel == 12

(* ----------------------- the monoid T: Identity ----------------------- *)

\* Two instances of the caller-supplied algebra: string concatenation
\* (non-commutative, values are sequences of letters) and addition.
Monoids == {"Concat", "Add"}

Letters == {"a", "b", "c"}

identity == IF T = "Concat" THEN <<>> ELSE 0

op(a, b) == IF T = "Concat" THEN a \o b ELSE a + b

\* T::op_left(&mut left, x): left <- op(left, x)
op_left(left, x) == op(left, x)

\* T::op_right(x, &mut right): right <- op(x, right)
op_right(x, right) == op(x, right)

(* --------------------------- small helpers ---------------------------- *)

\* A slice / Vec of n values, indexed from 0.
Slice(n, f(_)) == [k \in 0..(n - 1) |-> f(k)]

SliceLen(s) == Cardinality(DOMAIN s)

\* Bounds check of self.table[i].
InTable(self, i) == i \in DOMAIN self.table

Return(v, reads, evals) ==
    [kind |-> "Return", value |-> v, reads |-> reads, evals |-> evals]

Panic(reads, evals) ==
    [kind |-> "Panic", value |-> identity, reads |-> reads, evals |-> evals]

Diverge(reads, evals) ==
    [kind |-> "Diverge", value |-> identity, reads |-> reads, evals |-> evals]

(* ----------------------------- from_slice ----------------------------- *)

\* for i in (1..len).rev() { table[i] = op(table[2i], table[2i+1]) }
RECURSIVE from_slice_loop(_, _)
from_slice_loop(table, i) ==
    IF i < 1 THEN table
    ELSE from_slice_loop(
             [table EXCEPT ![i] = op(table[2 * i], table[2 * i + 1])], i - 1)

\* src.iter().chain(src.iter()).cloned().collect()
chained(src) ==
    LET len == SliceLen(src)
    IN  [k \in 0..(2 * len - 1) |-> IF k < len THEN src[k] ELSE src[k - len]]

from_slice(src) ==
    LET len == SliceLen(src)
    IN  [len |-> len, table |-> from_slice_loop(chained(src), len - 1)]

\* #[derive(PartialEq)]: the lengths are equal and so is every table entry,
\* slot 0 included.
eq(self, other) == self.len = other.len /\ self.table = other.table

(* -------------------------------- set --------------------------------- *)

update_swapped(table, i) ==
    [table EXCEPT ![i] = op(table[2 * i + 1], table[2 * i])]

\* self.table[i] = op(self.table[2 * i], self.table[2 * i + 1])
update(table, i) ==
    [table EXCEPT ![i] = op(table[2 * i], table[2 * i + 1])]

\* loop { self.update(i); if i == 0 { break } i >>= 1; }
RECURSIVE set_loop_through_zero(_, _)
set_loop_through_zero(table, i) ==
    IF i = 0 THEN update(table, 0)
    ELSE set_loop_through_zero(update(table, i), i \div 2)

\* while 0 != i { self.update(i); i >>= 1; }
RECURSIVE set_loop(_, _)
set_loop(table, i) ==
    IF i = 0 THEN table
    ELSE set_loop(update(table, i), i \div 2)

set_not_offset(self, i, x) ==
    IF ~InTable(self, i)
    THEN [out |-> Panic(<<>>, <<>>), self |-> self]
    ELSE [out |-> Return(identity, <<>>, <<>>),
          self |-> [self EXCEPT
                      !.table = set_loop([self.table EXCEPT ![i] = x],
                                         i \div 2)]]

set_wrapping(self, i, x) ==
    LET j == IF self.len = 0 THEN i ELSE (i + self.len) % (2 * self.len)
    IN  IF ~InTable(self, j)
        THEN [out |-> Panic(<<>>, <<>>), self |-> self]
        ELSE [out |-> Return(identity, <<>>, <<>>),
              self |-> [self EXCEPT
                          !.table = set_loop([self.table EXCEPT ![j] = x],
                                             j \div 2)]]

set_resizing(self, i, x) ==
    LET j == i + self.len
        grown == [k \in 0..j |->
                    IF k = j THEN x
                    ELSE IF InTable(self, k) THEN self.table[k] ELSE identity]
    IN  IF ~InTable(self, j)
        THEN [out |-> Return(identity, <<>>, <<>>),
              self |-> [self EXCEPT !.table = grown]]
        ELSE [out |-> Return(identity, <<>>, <<>>),
              self |-> [self EXCEPT
                          !.table = set_loop([self.table EXCEPT ![j] = x],
                                             j \div 2)]]

\* The result is the outcome together with the tree the call leaves behind.
set(self, i, x) ==
    LET j == i + self.len
    IN  IF ~InTable(self, j)
        THEN [out |-> Panic(<<>>, <<>>), self |-> self]
        ELSE [out |-> Return(identity, <<>>, <<>>),
              self |-> [self EXCEPT
                          !.table = set_loop([self.table EXCEPT ![j] = x],
                                             j \div 2)]]

(* -------------------------------- open -------------------------------- *)

\* Bound::{Included, Excluded, Unbounded} to a half-open Range; no check
\* against len and none of start <= end.
open(len, range) ==
    [start |-> CASE range.lo.kind = "Unbounded" -> 0
                 [] range.lo.kind = "Included"  -> range.lo.x
                 [] range.lo.kind = "Excluded"  -> range.lo.x + 1,
     end   |-> CASE range.hi.kind = "Excluded"  -> range.hi.x
                 [] range.hi.kind = "Included"  -> range.hi.x + 1
                 [] range.hi.kind = "Unbounded" -> len]

\* start..end
HalfOpen(s, e) ==
    [lo |-> [kind |-> "Included", x |-> s], hi |-> [kind |-> "Excluded", x |-> e]]

\* ..
Full == [lo |-> [kind |-> "Unbounded", x |-> 0], hi |-> [kind |-> "Unbounded", x |-> 0]]

(* -------------------------------- fold -------------------------------- *)

fold_result_swapped(left, right) == op(right, left)

\* T::op(left, right)
fold_result(left, right) == op(left, right)

\* An outcome of fold with, for each table entry read, the accumulator it
\* was folded into: "L" for left (op_left), "R" for right (op_right).
Sided(out, sides) ==
    [kind |-> out.kind, value |-> out.value, reads |-> out.reads,
     evals |-> out.evals, sides |-> sides]

right_block_not_decremented(end) == end

\* end -= 1;
right_block(end) == end - 1

\* The walk of the two cursors depends on start and end alone, so a pair
\* <<start, end>> met twice is met for ever: the loop never exits.
RECURSIVE fold_loop(_, _, _, _, _, _, _, _)
fold_loop(self, start, end, left, right, reads, sides, seen) ==
    IF start = end THEN Sided(Return(fold_result(left, right), reads, <<>>), sides)
    ELSE IF <<start, end>> \in seen THEN Sided(Diverge(reads, <<>>), sides)
    ELSE
      LET takeL  == start % 2 = 1
          takeR  == end % 2 = 1
          end1   == IF takeR THEN right_block(end) ELSE end
          readsL == IF takeL THEN Append(reads, start) ELSE reads
          readsR == IF takeR THEN Append(readsL, end1) ELSE readsL
          sidesL == IF takeL THEN Append(sides, "L") ELSE sides
          sidesR == IF takeR THEN Append(sidesL, "R") ELSE sidesL
      IN  IF takeL /\ ~InTable(self, start) THEN Sided(Panic(reads, <<>>), sides)
          ELSE IF takeR /\ ~InTable(self, end1) THEN Sided(Panic(readsL, <<>>), sidesL)
          ELSE fold_loop(
                 self,
                 (IF takeL THEN start + 1 ELSE start) \div 2,
                 end1 \div 2,
                 IF takeL THEN op_left(left, self.table[start]) ELSE left,
                 IF takeR THEN op_right(self.table[end1], right) ELSE right,
                 readsR,
                 sidesR,
                 seen \cup {<<start, end>>})

fold_root_shortcut(self, range) ==
    LET r == open(self.len, range)
    IN  IF r.start = 0 /\ r.end = self.len
        THEN IF InTable(self, 1)
             THEN Sided(Return(self.table[1], <<1>>, <<>>), <<"L">>)
             ELSE Sided(Panic(<<>>, <<>>), <<>>)
        ELSE fold_loop(self, r.start + self.len, r.end + self.len,
                       identity, identity, <<>>, <<>>, {})

fold_end_not_offset(self, range) ==
    LET r == open(self.len, range)
    IN  fold_loop(self, r.start + self.len, r.end,
                  identity, identity, <<>>, <<>>, {})

fold(self, range) ==
    LET r == open(self.len, range)
    IN  fold_loop(self, r.start + self.len, r.end + self.len,
                  identity, identity, <<>>, <<>>, {})

(* ----------------------------- predicates ---------------------------- *)

\* The caller's closure pred(&T::Value) -> bool, as data: a kind and a key.
\*   "Le"       weight(x) <= key   (the tests' P::pred: x <= y)
\*   "PrefixOf" x is a prefix of key   (order-sensitive, concatenation only)
\*   "SuffixOf" x is a suffix of key   (order-sensitive, concatenation only)
\*   "Odd"      weight(x) is odd   (false on the identity, not monotonic)
\*   "Script"   a stateful closure (pred is FnMut): its k-th call answers
\*              key[k] whatever the value, TRUE once the script is used up
weight(x) == IF T = "Concat" THEN Len(x) ELSE x

IsPrefix(x, key) == Len(x) <= Len(key) /\ SubSeq(key, 1, Len(x)) = x

IsSuffix(x, key) ==
    Len(x) <= Len(key) /\ SubSeq(key, Len(key) - Len(x) + 1, Len(key)) = x

Holds(pred, x) ==
    CASE pred.kind = "Le"       -> weight(x) <= pred.key
      [] pred.kind = "PrefixOf" -> IsPrefix(x, pred.key)
      [] pred.kind = "SuffixOf" -> IsSuffix(x, pred.key)
      [] pred.kind = "Odd"      -> weight(x) % 2 = 1

\* pred(&nxt), evals being the values of the earlier calls of pred.
Ask(pred, x, evals) ==
    IF pred.kind = "Script"
    THEN IF Len(evals) < Len(pred.key) THEN pred.key[Len(evals) + 1] ELSE TRUE
    ELSE Holds(pred, x)

\* x >> p
RECURSIVE shr(_, _)
shr(x, p) == IF p = 0 THEN x ELSE shr(x \div 2, p - 1)

(* --------------------------- search_forward --------------------------- *)

\* A descent that climbs back to the parent when the predicate fails.
subtree_forward_next_climbing(root, ok) ==
    IF ok THEN root * 2 + 1 ELSE root \div 2

subtree_forward_next_swapped(root, ok) ==
    IF ok THEN root * 2 ELSE root * 2 + 1

\* root = if pred(&nxt) { crr = nxt; root * 2 + 1 } else { root * 2 }
subtree_forward_next(root, ok) ==
    IF ok THEN root * 2 + 1 ELSE root * 2

\* while root < self.len { ... }; root - self.len
RECURSIVE search_subtree_forward(_, _, _, _, _, _)
search_subtree_forward(self, crr, root, pred, reads, evals) ==
    IF root >= self.len THEN Return(root - self.len, reads, evals)
    ELSE IF ~InTable(self, root * 2) THEN Panic(reads, evals)
    ELSE
      LET nxt  == op(crr, self.table[root * 2])
          ok   == Ask(pred, nxt, evals)
          next == subtree_forward_next(root, ok)
      IN  IF next = root
          THEN Diverge(Append(reads, root * 2), Append(evals, nxt))
          ELSE search_subtree_forward(self, IF ok THEN nxt ELSE crr, next, pred,
                                      Append(reads, root * 2), Append(evals, nxt))

sweep_forward_block_not_decremented(orig_end, p) == shr(orig_end, p)

\* let end = (orig_end >> p) - 1;
sweep_forward_block(orig_end, p) == shr(orig_end, p) - 1

\* for p in (0..shift).rev() { let end = (orig_end >> p) - 1; ... }
\* orig_end - self.len
RECURSIVE search_forward_sweep(_, _, _, _, _, _, _)
search_forward_sweep(self, orig_end, crr, p, pred, reads, evals) ==
    IF p < 0 THEN Return(orig_end - self.len, reads, evals)
    ELSE IF shr(orig_end, p) = 0 THEN Panic(reads, evals)
    ELSE
      LET end == sweep_forward_block(orig_end, p)
      IN  IF end % 2 # 0
          THEN search_forward_sweep(self, orig_end, crr, p - 1, pred, reads, evals)
          ELSE IF ~InTable(self, end) THEN Panic(reads, evals)
          ELSE
            LET nxt == op(crr, self.table[end])
            IN  IF ~Ask(pred, nxt, evals)
                THEN search_subtree_forward(self, crr, end, pred,
                                            Append(reads, end), Append(evals, nxt))
                ELSE search_forward_sweep(self, orig_end, nxt, p - 1, pred,
                                          Append(reads, end), Append(evals, nxt))

\* while start != end { if start % 2 == 1 { ... } start >>= 1; end >>= 1; shift += 1 }
RECURSIVE search_forward_ascend(_, _, _, _, _, _, _, _, _, _)
search_forward_ascend(self, start, end, orig_end, crr, shift, pred, reads, evals, fuel) ==
    IF start = end
    THEN search_forward_sweep(self, orig_end, crr, shift - 1, pred, reads, evals)
    ELSE IF fuel = 0 THEN Diverge(reads, evals)
    ELSE IF start % 2 = 1
    THEN IF ~InTable(self, start) THEN Panic(reads, evals)
         ELSE
           LET nxt == op(crr, self.table[start])
           IN  IF ~Ask(pred, nxt, evals)
               THEN search_subtree_forward(self, crr, start, pred,
                                           Append(reads, start), Append(evals, nxt))
               ELSE search_forward_ascend(self, (start + 1) \div 2, end \div 2,
                                          orig_end, nxt, shift + 1, pred,
                                          Append(reads, start), Append(evals, nxt),
                                          fuel - 1)
    ELSE search_forward_ascend(self, start \div 2, end \div 2, orig_end, crr,
                               shift + 1, pred, reads, evals, fuel - 1)

\* A search that asks the predicate about fold(start..k) for k = start + 1,
\* start + 2, ... and folds each prefix anew.
RECURSIVE search_forward_by_folds_from(_, _, _, _, _, _, _)
search_forward_by_folds_from(self, start, k, end, pred, reads, evals) ==
    IF k > end THEN Return(end, reads, evals)
    ELSE
      LET f == fold(self, HalfOpen(start, k))
      IN  IF f.kind # "Return" THEN Panic(reads \o f.reads, evals)
          ELSE IF ~Ask(pred, f.value, evals)
          THEN Return(k - 1, reads \o f.reads, Append(evals, f.value))
          ELSE search_forward_by_folds_from(self, start, k + 1, end, pred,
                                            reads \o f.reads,
                                            Append(evals, f.value))

search_forward_by_folds(self, range, pred) ==
    LET r == open(self.len, range)
    IN  search_forward_by_folds_from(self, r.start, r.start + 1, r.end, pred,
                                     <<>>, <<>>)

\* A search that first asks the predicate about the empty prefix.
search_forward_checks_identity(self, range, pred) ==
    LET r == open(self.len, range)
    IN  IF r.start = r.end THEN Return(r.start, <<>>, <<>>)
        ELSE IF ~Ask(pred, identity, <<>>)
        THEN Return(r.start, <<>>, <<identity>>)
        ELSE search_forward_ascend(self, r.start + self.len, r.end + self.len,
                                   r.end + self.len, identity, 0, pred,
                                   <<>>, <<identity>>, LoopFuel)

search_forward(self, range, pred) ==
    LET r == open(self.len, range)
    IN  IF r.start = r.end THEN Return(r.start, <<>>, <<>>)
        ELSE search_forward_ascend(self, r.start + self.len, r.end + self.len,
                                   r.end + self.len, identity, 0, pred,
                                   <<>>, <<>>, LoopFuel)

(* --------------------------- search_backward -------------------------- *)

subtree_backward_next_swapped(root, ok) ==
    IF ok THEN root * 2 + 1 ELSE root * 2

\* root = if pred(&nxt) { crr = nxt; root * 2 } else { root * 2 + 1 }
subtree_backward_next(root, ok) ==
    IF ok THEN root * 2 ELSE root * 2 + 1

\* while root < self.len { ... }; root + 1 - self.len
RECURSIVE search_subtree_backward(_, _, _, _, _, _)
search_subtree_backward(self, crr, root, pred, reads, evals) ==
    IF root >= self.len THEN Return(root + 1 - self.len, reads, evals)
    ELSE IF ~InTable(self, root * 2 + 1) THEN Panic(reads, evals)
    ELSE
      LET nxt  == op(self.table[root * 2 + 1], crr)
          ok   == Ask(pred, nxt, evals)
          next == subtree_backward_next(root, ok)
      IN  IF next = root
          THEN Diverge(Append(reads, root * 2 + 1), Append(evals, nxt))
          ELSE search_subtree_backward(self, IF ok THEN nxt ELSE crr, next, pred,
                                       Append(reads, root * 2 + 1),
                                       Append(evals, nxt))

search_backward_whole_not_incremented(orig_start_m1, len) ==
    orig_start_m1 - len

\* orig_start_m1 + 1 - self.len
search_backward_whole(orig_start_m1, len) == orig_start_m1 + 1 - len

\* for p in (0..shift).rev() { let start = (orig_start_m1 >> p) + 1; ... }
\* orig_start_m1 + 1 - self.len
RECURSIVE search_backward_sweep(_, _, _, _, _, _, _)
search_backward_sweep(self, orig_start_m1, crr, p, pred, reads, evals) ==
    IF p < 0
    THEN Return(search_backward_whole(orig_start_m1, self.len), reads, evals)
    ELSE
      LET start == shr(orig_start_m1, p) + 1
      IN  IF start % 2 # 1
          THEN search_backward_sweep(self, orig_start_m1, crr, p - 1, pred,
                                     reads, evals)
          ELSE IF ~InTable(self, start) THEN Panic(reads, evals)
          ELSE
            LET nxt == op(self.table[start], crr)
            IN  IF ~Ask(pred, nxt, evals)
                THEN search_subtree_backward(self, crr, start, pred,
                                             Append(reads, start), Append(evals, nxt))
                ELSE search_backward_sweep(self, orig_start_m1, nxt, p - 1, pred,
                                           Append(reads, start), Append(evals, nxt))

\* while start != end { if end % 2 == 1 { ... } start = (start + 1) >> 1;
\*                      end >>= 1; shift += 1 }
RECURSIVE search_backward_ascend(_, _, _, _, _, _, _, _, _, _)
search_backward_ascend(self, start, end, orig_start_m1, crr, shift, pred, reads, evals, fuel) ==
    IF start = end
    THEN search_backward_sweep(self, orig_start_m1, crr, shift - 1, pred, reads, evals)
    ELSE IF fuel = 0 THEN Diverge(reads, evals)
    ELSE IF end % 2 = 1
    THEN IF ~InTable(self, end - 1) THEN Panic(reads, evals)
         ELSE
           LET nxt == op(self.table[end - 1], crr)
           IN  IF ~Ask(pred, nxt, evals)
               THEN search_subtree_backward(self, crr, end - 1, pred,
                                            Append(reads, end - 1),
                                            Append(evals, nxt))
               ELSE search_backward_ascend(self, (start + 1) \div 2,
                                           (end - 1) \div 2, orig_start_m1, nxt,
                                           shift + 1, pred,
                                           Append(reads, end - 1),
                                           Append(evals, nxt), fuel - 1)
    ELSE search_backward_ascend(self, (start + 1) \div 2, end \div 2,
                                orig_start_m1, crr, shift + 1, pred, reads, evals,
                                fuel - 1)

\* `start - 1` on start = 0 (an empty tree, range 0..k with k > 0) overflows:
\* a panic when overflow checks are on; without them the wrapped value is
\* never used before the first table access panics on the empty table.
search_backward(self, range, pred) ==
    LET r == open(self.len, range)
    IN  IF r.start = r.end THEN Return(r.start, <<>>, <<>>)
        ELSE IF r.start + self.len = 0 THEN Panic(<<>>, <<>>)
        ELSE search_backward_ascend(self, r.start + self.len, r.end + self.len,
                                    r.start + self.len - 1, identity, 0, pred,
                                    <<>>, <<>>, LoopFuel)

(* ------------------- the brute-force Vector (test_vector2) ------------ *)

\* self.0[i] = x
Vector_mutate(v, i, x) == [v EXCEPT ![i] = x]

\* self.0[range].iter().fold(T::identity(), |x, y| T::op(x, y.clone()))
RECURSIVE Vector_solve(_, _, _)
Vector_solve(v, start, end) ==
    IF start >= end THEN identity
    ELSE op(Vector_solve(v, start, end - 1), v[end - 1])

(* ------------------------------- inputs ------------------------------- *)

\* Element sequences given to from_slice: every sequence of single letters
\* for concatenation; the ramps 1, 2, ..., n for addition.
InitSlices ==
    IF T = "Concat"
    THEN UNION {[0..(n - 1) -> {<<l>> : l \in Letters}] : n \in 0..MaxLen}
    ELSE {Slice(n, LAMBDA k : k + 1) : n \in 0..MaxLen}

\* Values written by set.
SetValues == IF T = "Concat" THEN {<<l>> : l \in Letters} ELSE {0, 10}

\* Ranges tried: start..end with the endpoints up to two past the end (the
\* valid ranges, the inverted ones and the ones that overrun), and `..`.
Endpoints == 0..(seg.len + 2)

Ranges == {HalfOpen(s, e) : s \in Endpoints, e \in Endpoints} \cup {Full}

Keys == {0, 1, 3, 6}

Patterns == {<<"a", "b">>, <<"b", "c", "a">>}

Preds ==
    {[kind |-> "Le", key |-> k] : k \in Keys}
    \cup {[kind |-> "Odd", key |-> 0]}
    \cup (IF T = "Concat"
          THEN {[kind |-> k, key |-> p] : k \in {"PrefixOf", "SuffixOf"},
                                         p \in Patterns}
          ELSE {})

\* Every way a closure can answer its first five calls: whatever predicate
\* the caller passes, monotonic or not, pure or not, answers like one of
\* these (no search of a valid range below calls it more than four times).
Scripts == {[kind |-> "Script", key |-> k] : k \in [1..5 -> BOOLEAN]}

\* Predicates tried on a range: the value predicates on every range, the
\* scripts on the valid ranges that are not empty.
PredsOn(range) ==
    LET r == open(seg.len, range)
    IN  IF r.start < r.end /\ r.end <= seg.len THEN Preds \cup Scripts ELSE Preds

NoRange == HalfOpen(0, 0)

NoPred == [kind |-> "None", key |-> 0]

(* ------------------------------ behaviour ----------------------------- *)

\* call is the method call the client made last, with its outcome and the
\* tree as it was when the call was made; "idle" once the client has taken
\* the outcome.
Call(name, i, x, range, pred, out) ==
    [op |-> name, i |-> i, x |-> x, range |-> range, pred |-> pred,
     out |-> out, pre |-> seg]

Idle == call.op = "idle"

Init ==
    /\ T \in Monoids
    /\ \E src \in InitSlices :
          /\ seg = from_slice(src)
          /\ vec = src
          /\ call = [op |-> "from_slice", i |-> 0, x |-> identity,
                     range |-> NoRange, pred |-> NoPred,
                     out |-> Return(identity, <<>>, <<>>),
                     pre |-> from_slice(src)]

Set ==
    /\ Idle
    /\ \E i \in 0..(seg.len + 1), x \in SetValues :
          LET r == set(seg, i, x)
          IN  /\ seg' = r.self
              /\ vec' = IF r.out.kind = "Return" THEN Vector_mutate(vec, i, x)
                        ELSE vec
              /\ call' = Call("set", i, x, NoRange, NoPred, r.out)
              /\ UNCHANGED T

\* A fold that stores its result in the unused slot 0.
Fold_caching ==
    /\ Idle
    /\ \E range \in Ranges :
          LET out == fold(seg, range)
          IN  /\ call' = Call("fold", 0, identity, range, NoPred, out)
              /\ seg' = IF out.kind = "Return" /\ InTable(seg, 0)
                        THEN [seg EXCEPT !.table[0] = out.value]
                        ELSE seg
              /\ UNCHANGED <<T, vec>>

Fold ==
    /\ Idle
    /\ \E range \in Ranges :
          /\ call' = Call("fold", 0, identity, range, NoPred, fold(seg, range))
          /\ UNCHANGED <<T, seg, vec>>

SearchForward ==
    /\ Idle
    /\ \E range \in Ranges : \E pred \in PredsOn(range) :
          /\ call' = Call("search_forward", 0, identity, range, pred,
                          search_forward(seg, range, pred))
          /\ UNCHANGED <<T, seg, vec>>

SearchBackward ==
    /\ Idle
    /\ \E range \in Ranges : \E pred \in PredsOn(range) :
          /\ call' = Call("search_backward", 0, identity, range, pred,
                          search_backward(seg, range, pred))
          /\ UNCHANGED <<T, seg, vec>>

\* The client takes the outcome of a call that ended (a returned value, or a
\* panic it caught) and goes on; a call that never ends has no successor.
Continue ==
    /\ ~Idle
    /\ call.out.kind # "Diverge"
    /\ call' = [op |-> "idle", i |-> 0, x |-> identity, range |-> NoRange,
                pred |-> NoPred, out |-> Return(identity, <<>>, <<>>),
                pre |-> seg]
    /\ UNCHANGED <<T, seg, vec>>

Next == Set \/ Fold \/ SearchForward \/ SearchBackward \/ Continue

Spec == Init /\ [][Next]_vars

(* ------------- the methods, one loop iteration at a step -------------- *)

\* Under SpecSteps call is the frame of the running method: its name, its
\* position (pc) and its cursors. The predicate of a search is any closure
\* at all: each of its calls answers either way.
Frame(name, pc, start, end, orig, shift, root) ==
    [op |-> name, pc |-> pc, start |-> start, end |-> end, orig |-> orig,
     shift |-> shift, root |-> root]

Finished == call.pc = "done"

At(name, pc) == call.op = name /\ call.pc = pc

Finish == call' = [call EXCEPT !.pc = "done"]

ValidRanges ==
    {HalfOpen(q[1], q[2]) :
        q \in {w \in (0..seg.len) \X (0..seg.len) : w[1] <= w[2]}}
    \cup {Full}

\* from_slice has chained the slice and is about to run its loop from len - 1.
InitSteps ==
    /\ T \in Monoids
    /\ \E src \in InitSlices :
          /\ vec = src
          /\ seg = [len |-> SliceLen(src), table |-> chained(src)]
          /\ call = Frame("from_slice", "loop", 0, 0, 0, 0, SliceLen(src) - 1)

\* for i in (1..len).rev() { table[i] = op(table[2i], table[2i+1]) }
StepFromSlice ==
    /\ At("from_slice", "loop")
    /\ IF call.root < 1
       THEN Finish /\ UNCHANGED <<T, seg, vec>>
       ELSE /\ seg' = [seg EXCEPT !.table[call.root] =
                          op(seg.table[2 * call.root], seg.table[2 * call.root + 1])]
            /\ call' = [call EXCEPT !.root = call.root - 1]
            /\ UNCHANGED <<T, vec>>

\* i += self.len; self.table[i] = x; i >>= 1;
StartSet ==
    /\ Finished
    /\ \E i \in 0..(seg.len - 1), x \in SetValues :
          /\ seg' = [seg EXCEPT !.table[i + seg.len] = x]
          /\ vec' = Vector_mutate(vec, i, x)
          /\ call' = Frame("set", "loop", 0, 0, 0, 0, (i + seg.len) \div 2)
          /\ UNCHANGED T

\* while 0 != i { self.update(i); i >>= 1; }
StepSet ==
    /\ At("set", "loop")
    /\ IF call.root = 0
       THEN Finish /\ UNCHANGED <<T, seg, vec>>
       ELSE /\ seg' = [seg EXCEPT !.table = update(seg.table, call.root)]
            /\ call' = [call EXCEPT !.root = call.root \div 2]
            /\ UNCHANGED <<T, vec>>

StartFold ==
    /\ Finished
    /\ \E range \in ValidRanges :
          LET r == open(seg.len, range)
          IN  call' = Frame("fold", "loop", r.start + seg.len, r.end + seg.len,
                            0, 0, 0)
    /\ UNCHANGED <<T, seg, vec>>

\* while start != end { ...; start >>= 1; end >>= 1; }
StepFold ==
    /\ At("fold", "loop")
    /\ IF call.start = call.end
       THEN Finish
       ELSE call' = [call EXCEPT
                       !.start = (IF call.start % 2 = 1 THEN call.start + 1
                                  ELSE call.start) \div 2,
                       !.end = (IF call.end % 2 = 1 THEN right_block(call.end)
                                ELSE call.end) \div 2]
    /\ UNCHANGED <<T, seg, vec>>

StartSearchForward ==
    /\ Finished
    /\ \E range \in ValidRanges :
          LET r == open(seg.len, range)
          IN  call' = IF r.start = r.end
                      THEN Frame("search_forward", "done", r.start, r.end, 0, 0, 0)
                      ELSE Frame("search_forward", "ascend", r.start + seg.len,
                                 r.end + seg.len, r.end + seg.len, 0, 0)
    /\ UNCHANGED <<T, seg, vec>>

\* while start != end { if start % 2 == 1 { ... } start >>= 1; end >>= 1; shift += 1 }
StepForwardAscend ==
    /\ At("search_forward", "ascend")
    /\ IF call.start = call.end
       THEN call' = [call EXCEPT !.pc = "sweep", !.shift = call.shift - 1]
       ELSE \E ok \in BOOLEAN :
              call' = IF call.start % 2 = 1 /\ ~ok
                      THEN [call EXCEPT !.pc = "subtree", !.root = call.start]
                      ELSE [call EXCEPT
                              !.start = (IF call.start % 2 = 1 THEN call.start + 1
                                         ELSE call.start) \div 2,
                              !.end = call.end \div 2,
                              !.shift = call.shift + 1]
    /\ UNCHANGED <<T, seg, vec>>

\* for p in (0..shift).rev() { let end = (orig_end >> p) - 1; ... }
StepForwardSweep ==
    /\ At("search_forward", "sweep")
    /\ IF call.shift < 0
       THEN Finish
       ELSE LET end == sweep_forward_block(call.orig, call.shift)
            IN  \E ok \in BOOLEAN :
                  call' = IF end % 2 = 0 /\ ~ok
                          THEN [call EXCEPT !.pc = "subtree", !.root = end]
                          ELSE [call EXCEPT !.shift = call.shift - 1]
    /\ UNCHANGED <<T, seg, vec>>

\* while root < self.len { root = if pred(&nxt) { root * 2 + 1 } else { root * 2 } }
StepSubtreeForward ==
    /\ At("search_forward", "subtree")
    /\ IF call.root >= seg.len
       THEN Finish
       ELSE \E ok \in BOOLEAN :
              call' = [call EXCEPT !.root = subtree_forward_next(call.root, ok)]
    /\ UNCHANGED <<T, seg, vec>>

StartSearchBackward ==
    /\ Finished
    /\ \E range \in ValidRanges :
          LET r == open(seg.len, range)
          IN  call' = IF r.start = r.end
                      THEN Frame("search_backward", "done", r.start, r.end, 0, 0, 0)
                      ELSE Frame("search_backward", "ascend", r.start + seg.len,
                                 r.end + seg.len, r.start + seg.len - 1, 0, 0)
    /\ UNCHANGED <<T, seg, vec>>

\* while start != end { if end % 2 == 1 { end -= 1; ... }
\*                      start = (start + 1) >> 1; end >>= 1; shift += 1 }
StepBackwardAscend ==
    /\ At("search_backward", "ascend")
    /\ IF call.start = call.end
       THEN call' = [call EXCEPT !.pc = "sweep", !.shift = call.shift - 1]
       ELSE \E ok \in BOOLEAN :
              call' = IF call.end % 2 = 1 /\ ~ok
                      THEN [call EXCEPT !.pc = "subtree", !.root = call.end - 1]
                      ELSE [call EXCEPT
                              !.start = (call.start + 1) \div 2,
                              !.end = (IF call.end % 2 = 1 THEN call.end - 1
                                       ELSE call.end) \div 2,
                              !.shift = call.shift + 1]
    /\ UNCHANGED <<T, seg, vec>>

\* for p in (0..shift).rev() { let start = (orig_start_m1 >> p) + 1; ... }
StepBackwardSweep ==
    /\ At("search_backward", "sweep")
    /\ IF call.shift < 0
       THEN Finish
       ELSE LET start == shr(call.orig, call.shift) + 1
            IN  \E ok \in BOOLEAN :
                  call' = IF start % 2 = 1 /\ ~ok
                          THEN [call EXCEPT !.pc = "subtree", !.root = start]
                          ELSE [call EXCEPT !.shift = call.shift - 1]
    /\ UNCHANGED <<T, seg, vec>>

\* while root < self.len { root = if pred(&nxt) { root * 2 } else { root * 2 + 1 } }
StepSubtreeBackward ==
    /\ At("search_backward", "subtree")
    /\ IF call.root >= seg.len
       THEN Finish
       ELSE \E ok \in BOOLEAN :
              call' = [call EXCEPT !.root = subtree_backward_next(call.root, ok)]
    /\ UNCHANGED <<T, seg, vec>>

\* One iteration of the running method.
Step ==
    \/ StepFromSlice
    \/ StepSet
    \/ StepFold
    \/ StepForwardAscend
    \/ StepForwardSweep
    \/ StepSubtreeForward
    \/ StepBackwardAscend
    \/ StepBackwardSweep
    \/ StepSubtreeBackward

\* The caller makes its next call once the last one has returned.
Start == StartSet \/ StartFold \/ StartSearchForward \/ StartSearchBackward

NextSteps == Start \/ Step

\* A method runs without yielding: while it has an iteration to make, it
\* makes one.
SpecSteps == InitSteps /\ [][NextSteps]_vars /\ WF_vars(Step)

(* ----------------------------- DualSegtree ---------------------------- *)

\* The test's Ops: strings under concatenation.
O_identity == <<>>

O_op(lhs, rhs) == lhs \o rhs

\* *lhs = Self::op(lhs.clone(), rhs)
op_assign_from_right(lhs, rhs) == O_op(lhs, rhs)

\* len identities, then the values.
DualSegtree_new(a) ==
    LET len == SliceLen(a)
    IN  [table |-> [k \in 0..(2 * len - 1) |->
                       IF k < len THEN O_identity ELSE a[k - len]]]

\* self.table.len() / 2
DualSegtree_len(self) == SliceLen(self.table) \div 2

into_slice_range(len, range) ==
    [start |-> CASE range.lo.kind = "Included"  -> range.lo.x
                 [] range.lo.kind = "Excluded"  -> range.lo.x + 1
                 [] range.lo.kind = "Unbounded" -> 0,
     end   |-> CASE range.hi.kind = "Included"  -> range.hi.x + 1
                 [] range.hi.kind = "Excluded"  -> range.hi.x
                 [] range.hi.kind = "Unbounded" -> len]

\* len.next_power_of_two().trailing_zeros(): the least k with len <= 2^k
RECURSIVE trailing_zeros_of_next_power(_, _)
trailing_zeros_of_next_power(len, k) ==
    IF len <= 2 ^ k THEN k ELSE trailing_zeros_of_next_power(len, k + 1)

lg(self) == trailing_zeros_of_next_power(DualSegtree_len(self), 0)

\* let x = replace(&mut table[i], identity);
\* table[2 * i..2 * i + 2].iter_mut().for_each(|y| op_assign_from_right(y, x))
push(table, i) ==
    LET x == table[i]
        taken == [table EXCEPT ![i] = O_identity]
    IN  [taken EXCEPT ![2 * i] = op_assign_from_right(@, x),
                      ![2 * i + 1] = op_assign_from_right(@, x)]

RECURSIVE thrust_from(_, _, _)
thrust_from(table, i, p) ==
    IF p < 1 THEN table
    ELSE thrust_from(IF shr(i, p) * 2 ^ p # i THEN push(table, shr(i, p)) ELSE table,
                     i, p - 1)

thrust_skipped(self, i) == self.table

\* (1..=lg).rev().filter(|&p| (i >> p) << p != i).for_each(|p| push(i >> p))
thrust(self, i) == thrust_from(self.table, i, lg(self))

\* (0..a.len() / 2).for_each(|i| push-down of a[i])
RECURSIVE update_all_from(_, _)
update_all_from(a, i) ==
    IF i >= SliceLen(a) \div 2 THEN a
    ELSE update_all_from(push(a, i), i + 1)

update_all(a) == update_all_from(a, 0)

\* self.table[self.len()..].to_vec()
Leaves(table) ==
    LET len == SliceLen(table) \div 2
    IN  [k \in 0..(len - 1) |-> table[len + k]]

\* let mut res = self.table.clone(); update_all(&mut res); res[len..].to_vec()
silent_collect(self) == Leaves(update_all(self.table))

\* while start != end { ... start /= 2; end /= 2; }
RECURSIVE DualSegtree_apply_loop(_, _, _, _)
DualSegtree_apply_loop(table, start, end, x) ==
    IF start = end THEN table
    ELSE
      LET takeL == start % 2 = 1
          takeR == end % 2 = 1
          end1  == IF takeR THEN end - 1 ELSE end
          tL    == IF takeL
                   THEN [table EXCEPT ![start] = op_assign_from_right(@, x)]
                   ELSE table
          tR    == IF takeR
                   THEN [tL EXCEPT ![end1] = op_assign_from_right(@, x)]
                   ELSE tL
      IN  DualSegtree_apply_loop(tR, (IF takeL THEN start + 1 ELSE start) \div 2,
                                 end1 \div 2, x)

\* An apply that pushes the pending operators above start down before it
\* checks the range.
DualSegtree_apply_thrust_first(self, range, x) ==
    LET len == DualSegtree_len(self)
        r   == into_slice_range(len, range)
        thrust1 == [table |-> thrust(self, r.start + len)]
    IN  IF r.end < r.start THEN [kind |-> "Panic", self |-> thrust1]
        ELSE IF len < r.end THEN [kind |-> "Panic", self |-> thrust1]
        ELSE
          LET start   == r.start + len
              end     == r.end + len
              thrust2 == [table |-> thrust(thrust1, end)]
          IN  [kind |-> "Return",
               self |-> [table |->
                            DualSegtree_apply_loop(thrust2.table, start, end, x)]]

\* The outcome and the tree the call leaves behind.
DualSegtree_apply(self, range, x) ==
    LET len == DualSegtree_len(self)
        r   == into_slice_range(len, range)
    IN  IF r.end < r.start THEN [kind |-> "Panic", self |-> self]
        ELSE IF len < r.end THEN [kind |-> "Panic", self |-> self]
        ELSE
          LET start   == r.start + len
              end     == r.end + len
              thrust1 == [table |-> thrust(self, start)]
              thrust2 == [table |-> thrust(thrust1, end)]
          IN  [kind |-> "Return",
               self |-> [table |->
                            DualSegtree_apply_loop(thrust2.table, start, end, x)]]

\* self.table[range].iter_mut().for_each(|y| op_assign_from_right(y, x))
Brute_apply(table, range, x) ==
    [k \in DOMAIN table |->
        IF range.lo.x <= k /\ k < range.hi.x
        THEN op_assign_from_right(table[k], x) ELSE table[k]]

\* Arrays of 1 to DualMaxLen one-letter strings, "a", "b", "c" in turn.
DualInits ==
    {Slice(n, LAMBDA k : IF k % 3 = 0 THEN <<"a">>
                         ELSE IF k % 3 = 1 THEN <<"b">> ELSE <<"c">>) :
        n \in 1..DualMaxLen}

\* The strings applied.
DualValues == {<<"p">>, <<"q">>}

\* l..r with 0 <= l <= len and 0 <= r <= len + 1: valid, inverted and
\* overrunning ranges.
DualRanges ==
    {HalfOpen(l, r) : l \in 0..DualSegtree_len(seg),
                      r \in 0..(DualSegtree_len(seg) + 1)}

\* Under DualSpec seg is the DualSegtree, vec the brute-force array and call
\* the last call with the tree before it and the number of applies so far.
DualCall(name, range, x, kind, out, count) ==
    [op |-> name, range |-> range, x |-> x, kind |-> kind, out |-> out,
     pre |-> seg, count |-> count]

DualInit ==
    /\ T = "Concat"
    /\ \E a \in DualInits :
          /\ seg = DualSegtree_new(a)
          /\ vec = a
          /\ call = [op |-> "new", range |-> NoRange, x |-> O_identity,
                     kind |-> "Return", out |-> <<>>,
                     pre |-> DualSegtree_new(a), count |-> 0]

DualApply ==
    /\ call.count < MaxApplies
    /\ \E range \in DualRanges, x \in DualValues :
          LET r == DualSegtree_apply(seg, range, x)
          IN  /\ seg' = r.self
              /\ vec' = IF r.kind = "Return" THEN Brute_apply(vec, range, x)
                        ELSE vec
              /\ call' = DualCall("apply", range, x, r.kind, <<>>, call.count + 1)
              /\ UNCHANGED T

\* update_all(&mut self.table); self.table[self.len()..].to_vec()
DualToVec ==
    /\ call.op # "to_vec"
    /\ seg' = [table |-> update_all(seg.table)]
    /\ call' = DualCall("to_vec", NoRange, O_identity, "Return",
                        Leaves(update_all(seg.table)), call.count)
    /\ UNCHANGED <<T, vec>>

DualNext == DualApply \/ DualToVec

DualSpec == DualInit /\ [][DualNext]_vars

(* ------------------------- the properties checked --------------------- *)

\* The range of the call as the caller wrote it.
CallStart == IF call.range.lo.kind = "Unbounded" THEN 0 ELSE call.range.lo.x

CallEnd == IF call.range.hi.kind = "Unbounded" THEN seg.len ELSE call.range.hi.x

ValidCallRange == 0 <= CallStart /\ CallStart <= CallEnd /\ CallEnd <= seg.len

Returned == call.out.kind = "Return"

\* The reference reduction identity . w[s] . w[s+1] ... w[e-1].
Ref(s, e) == Vector_solve(vec, s, e)

Ramp(n) == Slice(n, LAMBDA k : k + 1)

Word(w) == Slice(Len(w), LAMBDA k : <<w[k + 1]>>)

\* C1: on a tree built by from_slice and changed by valid set calls, fold of
\* a valid range start..end returns the left-to-right reduction of the
\* current elements start..end-1, also for a non-commutative monoid.
C1_FoldIsReference ==
    (call.op = "fold" /\ ValidCallRange)
        => (Returned /\ call.out.value = Ref(CallStart, CallEnd))

\* C1 witness: "a","b","c" folded over 0..3 gives "abc", after a set.
C1_Witness ==
    /\ T = "Concat" /\ call.op = "fold" /\ Returned
    /\ vec = Word(<<"a", "b", "c">>)
    /\ seg # from_slice(vec)
    /\ CallStart = 0 /\ CallEnd = 3
    /\ call.out.value = <<"a", "b", "c">>

\* pred over the growing prefixes of s..e: true on the empty one, and once
\* false, false on every longer one.
MonotoneForward(pred, s, e) ==
    /\ pred.kind # "Script"
    /\ Holds(pred, identity)
    /\ \A k \in s..e : \A m \in k..e :
          ~Holds(pred, Ref(s, k)) => ~Holds(pred, Ref(s, m))

ForwardBoundary(pred, s, e, i) ==
    /\ i \in s..e
    /\ Holds(pred, Ref(s, i))
    /\ (i < e => ~Holds(pred, Ref(s, i + 1)))

\* C2: for a valid range and a predicate monotonic over its prefixes,
\* search_forward returns the one index i in [start, end] with
\* pred(fold(start..i)) true and, if i < end, pred(fold(start..i+1)) false.
C2_SearchForwardBoundary ==
    (/\ call.op = "search_forward"
     /\ ValidCallRange
     /\ MonotoneForward(call.pred, CallStart, CallEnd))
        => /\ Returned
           /\ ForwardBoundary(call.pred, CallStart, CallEnd, call.out.value)
           /\ \A j \in CallStart..CallEnd :
                 ForwardBoundary(call.pred, CallStart, CallEnd, j)
                     => j = call.out.value

\* C2 witness: sum monoid, [1,2,3,4], range 0..4, pred sum <= 3 returns 2.
C2_Witness ==
    /\ T = "Add" /\ call.op = "search_forward" /\ Returned
    /\ vec = Ramp(4)
    /\ CallStart = 0 /\ CallEnd = 4
    /\ call.pred = [kind |-> "Le", key |-> 3]
    /\ call.out.value = 2

\* pred over the growing suffixes of s..e ending at e.
MonotoneBackward(pred, s, e) ==
    /\ pred.kind # "Script"
    /\ Holds(pred, identity)
    /\ \A k \in s..e : \A m \in s..k :
          ~Holds(pred, Ref(k, e)) => ~Holds(pred, Ref(m, e))

BackwardBoundary(pred, s, e, i) ==
    /\ i \in s..e
    /\ Holds(pred, Ref(i, e))
    /\ (i > s => ~Holds(pred, Ref(i - 1, e)))

\* C3: for a valid range and a predicate monotonic over its suffixes,
\* search_backward returns the one index i in [start, end] with
\* pred(fold(i..end)) true and, if i > start, pred(fold(i-1..end)) false.
C3_SearchBackwardBoundary ==
    (/\ call.op = "search_backward"
     /\ ValidCallRange
     /\ MonotoneBackward(call.pred, CallStart, CallEnd))
        => /\ Returned
           /\ BackwardBoundary(call.pred, CallStart, CallEnd, call.out.value)
           /\ \A j \in CallStart..CallEnd :
                 BackwardBoundary(call.pred, CallStart, CallEnd, j)
                     => j = call.out.value

\* C3 witness: "c","a","b" searched backward over 0..3 for the suffixes
\* that are suffixes of "ab": the boundary is 1, inside the range.
C3_Witness ==
    /\ T = "Concat" /\ call.op = "search_backward" /\ Returned
    /\ vec = Word(<<"c", "a", "b">>)
    /\ CallStart = 0 /\ CallEnd = 3
    /\ call.pred = [kind |-> "SuffixOf", key |-> <<"a", "b">>]
    /\ call.out.value = 1

\* C4: after from_slice and any completed valid set calls, leaf n+j holds
\* the current element j and every internal node i in [1,n) holds
\* combine(table[2i], table[2i+1]), for every n.
C4_TreeInvariant ==
    /\ seg.len = SliceLen(vec)
    /\ \A j \in 0..(seg.len - 1) : seg.table[seg.len + j] = vec[j]
    /\ \A i \in 1..(seg.len - 1) :
          seg.table[i] = op(seg.table[2 * i], seg.table[2 * i + 1])

\* C4 witness: a completed set on a tree of three elements (not a power of
\* two) that changed an internal node.
C4_Witness ==
    /\ call.op = "set" /\ Returned /\ seg.len = 3
    /\ seg.table[1] # call.pre.table[1]

\* C5: after set(i, x) with i < n, fold(i..i+1) is x, and the fold of every
\* valid range that does not contain i is what it was before the set.
C5_SetUpdatesOnlyItsElement ==
    (call.op = "set" /\ Returned)
        => /\ fold(seg, HalfOpen(call.i, call.i + 1)).kind = "Return"
           /\ fold(seg, HalfOpen(call.i, call.i + 1)).value = call.x
           /\ \A s \in 0..seg.len : \A e \in s..seg.len :
                 (e <= call.i \/ s > call.i)
                     => fold(seg, HalfOpen(s, e)).value
                            = fold(call.pre, HalfOpen(s, e)).value

\* C5 witness: sum monoid, built from [1,2,3,4] where fold(1..3) is 5;
\* after set(2, 10), fold(0..4) is 17.
C5_Witness ==
    /\ T = "Add" /\ call.op = "set" /\ Returned
    /\ call.pre = from_slice(Ramp(4))
    /\ fold(call.pre, HalfOpen(1, 3)).value = 5
    /\ call.i = 2 /\ call.x = 10
    /\ fold(seg, HalfOpen(0, 4)).value = 17

\* C6: fold of an inverted range (start > end, both within [0, n]) fails
\* with an error: it neither returns a value nor runs on for ever.
C6_InvertedFoldFails ==
    (call.op = "fold" /\ CallStart > CallEnd /\ CallStart <= seg.len)
        => call.out.kind = "Panic"

\* C7: fold of a range with start <= end and end > n fails with an error:
\* it never returns a value.
C7_OverrunFoldFails ==
    (call.op = "fold" /\ CallStart <= CallEnd /\ CallEnd > seg.len)
        => call.out.kind = "Panic"

C9_SearchInvalidRangeFails ==
    (call.op \in {"search_forward", "search_backward"} /\ ~ValidCallRange)
        => /\ call.out.kind = "Panic"
           /\ call.out.evals = <<>>

\* C10: fold(k..k) with 0 <= k <= n returns the identity element and reads
\* no table entry.
C10_EmptyFoldIsIdentity ==
    (call.op = "fold" /\ CallStart = CallEnd /\ CallEnd <= seg.len)
        => /\ Returned
           /\ call.out.value = identity
           /\ call.out.reads = <<>>

\* C10 witness: fold(2..2) on a tree of three elements.
C10_Witness ==
    /\ call.op = "fold" /\ Returned /\ seg.len = 3
    /\ call.range = HalfOpen(2, 2)

\* C11: from_slice of the empty sequence gives a tree (len 0, empty table)
\* on which every fold of a valid range, 0..0 and `..`, returns the
\* identity element.
C11_EmptyTreeFoldsToIdentity ==
    (SliceLen(vec) = 0)
        => /\ seg = [len |-> 0, table |-> <<>>]
           /\ (call.op = "fold" /\ ValidCallRange)
                  => (Returned /\ call.out.value = identity)

\* C11 witness: fold(..) on the tree built from the empty sequence.
C11_Witness ==
    /\ SliceLen(vec) = 0 /\ seg.len = 0
    /\ call.op = "fold" /\ call.range = Full /\ Returned

Searching == call.op \in {"search_forward", "search_backward"}

\* C12: for a valid range and any predicate at all (not monotonic, false on
\* the identity, or answering differently from call to call),
\* search_forward and search_backward read the table within its bounds
\* only and return an index.
C12_SearchNeverCrashes ==
    (Searching /\ ValidCallRange)
        => /\ Returned
           /\ call.out.value \in Nat
           /\ \A k \in 1..Len(call.out.reads) :
                 call.out.reads[k] \in 1..(2 * seg.len - 1)

\* C12 witness: a search over a whole tree of three elements with the
\* predicate "odd", false on the identity and not monotonic, that went on
\* past a failed evaluation into a subtree.
C12_Witness ==
    /\ Searching /\ Returned /\ seg.len = 3
    /\ CallStart = 0 /\ CallEnd = 3
    /\ call.pred.kind = "Odd"
    /\ Len(call.out.evals) >= 3

\* C20: for a valid range and any predicate, the index search_forward or
\* search_backward returns lies in [range.start, range.end].
C20_SearchIndexInRange ==
    (Searching /\ ValidCallRange /\ Returned)
        => call.out.value \in CallStart..CallEnd

\* C20 witness: search_backward of 1..3 answered false, true, ... returns
\* an index strictly inside the range.
C20_Witness ==
    /\ call.op = "search_backward" /\ Returned
    /\ call.pred.kind = "Script"
    /\ CallStart + 2 <= CallEnd
    /\ CallStart < call.out.value /\ call.out.value < CallEnd

\* C14: in every state reached by from_slice(v) and any calls of set, fold,
\* search_forward and search_backward, failed ones included, n is the
\* length of v and the table has exactly the 2n slots 0..2n-1: each call
\* leaves n and the slots as they were before it.
C14_SizeIsFixed ==
    /\ seg.len = SliceLen(vec)
    /\ DOMAIN seg.table = 0..(2 * seg.len - 1)
    /\ seg.len = call.pre.len
    /\ DOMAIN seg.table = DOMAIN call.pre.table

\* C14 witness: the state after a search that panicked on a tree of three
\* elements, itself reached after a set.
C14_Witness ==
    /\ Searching /\ call.out.kind = "Panic" /\ seg.len = 3
    /\ seg # from_slice(vec)

\* The leaf of element i and its strict ancestors: (n+i) >> k down to 1.
RECURSIVE PathToRoot(_)
PathToRoot(j) == IF j = 0 THEN {} ELSE {j} \cup PathToRoot(j \div 2)

\* C16: set(i, x) with i < n writes only the leaf n+i and its strict
\* ancestors (n+i) >> k down to index 1; every other table entry, index 0
\* included, and n are as before the call.
C16_SetWritesOnlyItsPath ==
    (call.op = "set" /\ Returned)
        => /\ seg.len = call.pre.len
           /\ seg.table[seg.len + call.i] = call.x
           /\ \A k \in DOMAIN seg.table :
                 k \notin PathToRoot(seg.len + call.i)
                     => seg.table[k] = call.pre.table[k]

\* C16 witness: set(0, x) on three elements changed the leaf and the root
\* and left slot 0, which held the old element 0, alone.
C16_Witness ==
    /\ call.op = "set" /\ Returned /\ seg.len = 3 /\ call.i = 0
    /\ seg.table[3] # call.pre.table[3]
    /\ seg.table[1] # call.pre.table[1]
    /\ seg.table[0] = call.pre.table[0]
    /\ seg.table[0] # seg.table[3]

Querying == call.op \in {"fold", "search_forward", "search_backward"}

\* The last query made again on the tree as it is now.
Requery ==
    CASE call.op = "fold" -> fold(seg, call.range)
      [] call.op = "search_forward" -> search_forward(seg, call.range, call.pred)
      [] call.op = "search_backward" -> search_backward(seg, call.range, call.pred)

\* C17: fold, search_forward and search_backward leave every table entry
\* and n as they were, whatever the arguments and the predicate's answers,
\* so the same query made again returns the same result.
C17_QueriesDoNotMutate ==
    Querying => (seg = call.pre /\ Requery = call.out)

\* C17 witness: a fold of an overrunning range that returned a value other
\* than the identity, and a tree that a set has changed before.
C17_Witness ==
    /\ call.op = "fold" /\ Returned /\ CallEnd > seg.len
    /\ call.out.value # identity
    /\ seg # from_slice(vec)

\* The values the search of the last call may show its predicate: the folds
\* of the non-empty prefixes of the range for search_forward, of the
\* non-empty suffixes for search_backward.
Candidates ==
    IF call.op = "search_forward"
    THEN {Ref(CallStart, k) : k \in (CallStart + 1)..CallEnd}
    ELSE {Ref(k, CallEnd) : k \in CallStart..(CallEnd - 1)}

\* C19: on a valid range, every value the predicate is evaluated on is
\* fold(start..k) with start < k <= end for search_forward and fold(k..end)
\* with start <= k < end for search_backward; it is never the empty prefix
\* or suffix, and on an empty range the predicate is not evaluated at all.
C19_PredicateSeesOnlyPrefixFolds ==
    (Searching /\ ValidCallRange)
        => /\ \A j \in 1..Len(call.out.evals) :
                /\ call.out.evals[j] \in Candidates
                /\ T = "Concat" => call.out.evals[j] # identity
           /\ CallStart = CallEnd => call.out.evals = <<>>

\* C19 witness: a search_backward over 1..4 of four strings whose predicate
\* was asked about the last two elements and then about the last three.
C19_Witness ==
    /\ call.op = "search_backward" /\ Returned /\ T = "Concat"
    /\ seg.len = 4 /\ CallStart = 1 /\ CallEnd = 4
    /\ call.out.evals = <<Ref(2, 4), Ref(1, 4)>>

\* The elements below table entry j: those whose leaf has j on its path.
Span(j) == {k \in 0..(seg.len - 1) : j \in PathToRoot(seg.len + k)}

Lo(S) == CHOOSE k \in S : \A m \in S : k <= m

Hi(S) == CHOOSE k \in S : \A m \in S : m <= k

\* The positions of the reads folded into one accumulator, in visiting order.
ReadsOf(side) ==
    SelectSeq([j \in 1..Len(call.out.reads) |->
                  [block |-> call.out.reads[j], side |-> call.out.sides[j]]],
              LAMBDA r : r.side = side)

\* C18: on a valid range the entries fold reads are subtree blocks whose
\* spans are intervals of elements, pairwise disjoint and covering exactly
\* start..end-1; the blocks of the left accumulator come in increasing
\* order from start, those of the right accumulator in decreasing order
\* from end, and every left block lies before every right block.
C18_FoldReadsTileTheRange ==
    (call.op = "fold" /\ ValidCallRange /\ Returned)
        => LET reads == call.out.reads
               L == ReadsOf("L")
               R == ReadsOf("R")
           IN  /\ Len(call.out.sides) = Len(reads)
               /\ \A j \in 1..Len(reads) :
                     /\ Span(reads[j]) # {}
                     /\ Span(reads[j]) = Lo(Span(reads[j]))..Hi(Span(reads[j]))
                     /\ Span(reads[j]) \subseteq CallStart..(CallEnd - 1)
               /\ \A j, m \in 1..Len(reads) :
                     j # m => Span(reads[j]) \cap Span(reads[m]) = {}
               /\ UNION {Span(reads[j]) : j \in 1..Len(reads)}
                     = CallStart..(CallEnd - 1)
               /\ Len(L) > 0 => Lo(Span(L[1].block)) = CallStart
               /\ \A j \in 1..(Len(L) - 1) :
                     Lo(Span(L[j + 1].block)) = Hi(Span(L[j].block)) + 1
               /\ Len(R) > 0 => Hi(Span(R[1].block)) = CallEnd - 1
               /\ \A j \in 1..(Len(R) - 1) :
                     Hi(Span(R[j + 1].block)) = Lo(Span(R[j].block)) - 1
               /\ \A j \in 1..Len(L) : \A m \in 1..Len(R) :
                     Hi(Span(L[j].block)) < Lo(Span(R[m].block))

\* C18 witness: fold(0..3) of three elements read leaf 3 into the left
\* accumulator and then the block 2 of elements 1 and 2 into the right one.
C18_Witness ==
    /\ call.op = "fold" /\ Returned /\ seg.len = 3
    /\ CallStart = 0 /\ CallEnd = 3
    /\ call.out.reads = <<3, 2>>
    /\ call.out.sides = <<"L", "R">>

\* C13: every operation runs to completion: from_slice for every n, set for
\* every valid index, and fold, search_forward and search_backward for
\* every valid range and every predicate reach their return.
C13_EveryOperationTerminates == (~Finished) ~> Finished

\* C13 witness: a search_backward from element 1 of four that went up two
\* levels, swept down to block 3, descended it to leaf 6 and returned.
C13_Witness ==
    /\ At("search_backward", "done")
    /\ seg.len = 4 /\ call.orig = 4
    /\ call.shift = 1 /\ call.root = 6

\* C15: after new and any sequence of apply(l..r, x) with 0 <= l <= r <= n,
\* the collected array (silent_collect, and what to_vec returns) is the
\* brute-force array, in which each apply put x to the right of exactly the
\* elements l..r-1, in call order; the operator is string concatenation.
C15_DualSegtreeIsBrute ==
    /\ silent_collect(seg) = vec
    /\ call.op = "to_vec" => call.out = vec

\* C15 witness: five elements, two overlapping applies of different
\* strings, the second over a part of the first's range, then to_vec.
C15_Witness ==
    /\ call.op = "to_vec" /\ call.count = 2
    /\ SliceLen(vec) = 5
    /\ vec[0] = <<"a", "p">>
    /\ vec[2] = <<"c", "p", "q">>
    /\ vec[4] = <<"b", "q">>

\* C21: whatever sets were made, the tree compares equal (==) to the tree
\* built by from_slice from the elements it holds now.
C21_EqualRegardlessOfHistory == eq(seg, from_slice(vec))

\* floor(log2 n) for n >= 1
RECURSIVE FloorLog2(_)
FloorLog2(n) == IF n < 2 THEN 0 ELSE 1 + FloorLog2(n \div 2)

DualInvalidRange ==
    LET r == into_slice_range(DualSegtree_len(call.pre), call.range)
    IN  r.end < r.start \/ DualSegtree_len(call.pre) < r.end

\* C23: DualSegtree::apply with end < start or end > len panics, and it
\* panics before it pushes any pending operator down or writes any table
\* entry: the table, and so the collected array, is as before the call.
C23_DualApplyPanicsUntouched ==
    (call.op = "apply" /\ DualInvalidRange)
        => /\ call.kind = "Panic"
           /\ seg = call.pre
           /\ silent_collect(seg) = silent_collect(call.pre)
           /\ silent_collect(seg) = vec

\* C23 witness: an inverted apply on five elements that panicked while the
\* root held a pending operator from an earlier apply.
C23_Witness ==
    /\ call.op = "apply" /\ call.kind = "Panic" /\ call.count = 2
    /\ DualSegtree_len(seg) = 5
    /\ call.range.lo.x > call.range.hi.x
    /\ \E k \in 1..4 : seg.table[k] # O_identity

====
